---- MODULE Spec2Model ----
(***************************************************************************)
(* A model of three.Three (src/three/three.py), the Open311 API wrapper:   *)
(* the configuration an instance keeps, configure() and reset(), and the   *)
(* HTTP call each query method hands to the transport.                     *)
(*                                                                         *)
(* Python strings are sequences of one-character strings, so that          *)
(* startswith, endswith, concatenation and join are computed character by  *)
(* character.  A dict is a function from its keys to its values.           *)
(***************************************************************************)
EXTENDS Integers, Sequences, FiniteSets, TLC

VARIABLES
    environ,       \* os.environ, restricted to the key OPEN311_API_KEY
    _keywords,     \* self._keywords, the keywords retained by __init__
    api_key,       \* self.api_key
    endpoint,      \* self.endpoint
    format,        \* self.format
    jurisdiction,  \* self.jurisdiction
    proxy,         \* self.proxy
    op,            \* the most recent operation and its arguments
    sent,          \* the transport calls that operation made, in order
    constructed    \* the attributes and environment right after __init__

vars == <<environ, _keywords, api_key, endpoint, format, jurisdiction, proxy,
          op, sent, constructed>>

----------------------------------------------------------------------------
(* Bounds of the model. *)

\* the most '/' characters that end an endpoint string given by a caller
MaxSlashes == 2

----------------------------------------------------------------------------
(* Python values. *)

\* Python's None: a reserved value that is no string of the model
None == <<"<None>">>

\* the empty dict
EmptyDict == [k \in {} |-> <<>>]

\* bool(x) for a string or None
Truthy(x) == x /= None /\ x /= <<>>

\* x or y
Or(x, y) == IF Truthy(x) THEN x ELSE y

\* s.startswith(p)
StartsWith(s, p) == Len(s) >= Len(p) /\ SubSeq(s, 1, Len(p)) = p

\* s.endswith(p)
EndsWith(s, p) == Len(s) >= Len(p) /\ SubSeq(s, Len(s) - Len(p) + 1, Len(s)) = p

\* sep.join(segs)
RECURSIVE Join(_, _)
Join(sep, segs) ==
    IF segs = <<>> THEN <<>>
    ELSE IF Len(segs) = 1 THEN segs[1]
    ELSE segs[1] \o sep \o Join(sep, Tail(segs))

\* ifilter(None, args): the truthy elements of args, in order
Filter(args) == SelectSeq(args, Truthy)

\* d[k] of a defaultdict(str): the value, or str() = '' for a missing key
Item(d, k) == IF k \in DOMAIN d THEN d[k] ELSE <<>>

\* d.update(kw), as a value: the entries of kw win
Update(d, kw) == kw @@ d

----------------------------------------------------------------------------
(* String literals of the source and of its tests. *)

http == <<"h", "t", "t", "p">>
https_prefix == <<"h", "t", "t", "p", "s", ":", "/", "/">>
http_prefix == <<"h", "t", "t", "p", ":", "/", "/">>
slash == <<"/">>
dot == <<".">>
json == <<"j", "s", "o", "n">>
xml == <<"x", "m", "l">>
discovery_seg == <<"d", "i", "s", "c", "o", "v", "e", "r", "y">>
services_seg == <<"s", "e", "r", "v", "i", "c", "e", "s">>
requests_seg == <<"r", "e", "q", "u", "e", "s", "t", "s">>

----------------------------------------------------------------------------
(* The inputs the operations are called with. *)

\* n times '/'
Slashes(n) == [i \in 1..n |-> "/"]

\* what an endpoint string may begin with: nothing, a scheme, or the
\* letters 'http' of a host name such as 'httpbin.org'
Schemes == {<<>>, http_prefix, https_prefix, http}

\* endpoint strings: the host 'a' behind each beginning, the host and the
\* empty string followed by up to MaxSlashes slashes, and a full URL that
\* ends in a slash
EndpointStrings ==
    {s \o <<"a">> : s \in Schemes}
        \cup {<<"a">> \o Slashes(n) : n \in 1..MaxSlashes}
        \cup {Slashes(n) : n \in 0..MaxSlashes}
        \cup {http_prefix \o <<"a">> \o slash}

\* the endpoint argument of Three(...): omitted (None) or a string
CtorEndpoints == {None} \cup EndpointStrings

\* the keyword arguments of Three(...); endpoint is never among them,
\* Python binds it to the first parameter
CtorKwargs ==
    { EmptyDict,
      [api_key |-> <<"k">>],
      [api_key |-> <<>>, format |-> xml, jurisdiction |-> <<"j">>,
       proxy |-> <<"p">>] }

\* the keyword arguments of configure(...)
ConfigureKwargs ==
    {[endpoint |-> e] : e \in EndpointStrings}
        \cup { EmptyDict,
               [api_key |-> <<"q">>],
               [api_key |-> <<>>],
               [format |-> xml],
               [format |-> <<>>],
               [jurisdiction |-> <<"g">>, proxy |-> <<"r">>],
               [endpoint |-> <<"b">>, api_key |-> <<"q">>, format |-> xml] }

\* os.environ: OPEN311_API_KEY unset, set to '', set to a key
Environments ==
    { EmptyDict,
      [OPEN311_API_KEY |-> <<>>],
      [OPEN311_API_KEY |-> <<"E">>] }

\* the url argument of discovery()
test_url == http_prefix \o <<"t", "/", "d", ".", "j">>
DiscoveryUrls == {None, <<>>, test_url}

\* service codes and request ids
Codes == {None, <<>>, <<"1", "2", "3">>}
Ids == {None, <<"1", "2", "3", "4", "5">>}

\* the keyword arguments of services() and request()
QueryKwargs == {EmptyDict, [foo |-> <<"b", "a", "r">>]}

\* the keyword arguments of requests()
RequestsKwargs ==
    {EmptyDict, [status |-> <<"o", "p", "e", "n">>], [service_code |-> <<"9">>]}

\* the name argument of post(): 'Z W' and 'Z W X'
Names == {<<"Z", " ", "W">>, <<"Z", " ", "W", " ", "X">>}

\* the address argument of post()
Addresses == {<<"8", "5">>}

\* the keyword arguments of post()
PostKwargs ==
    { EmptyDict,
      [description |-> <<"d">>, phone |-> <<"5">>],
      [api_key |-> <<"m">>] }

----------------------------------------------------------------------------
(* Three: configuration. *)

\* Three._configure_endpoint: add a scheme and an end slash
_configure_endpoint(e) ==
    LET e1 == IF ~StartsWith(e, http) THEN https_prefix \o e ELSE e
    IN  IF ~EndsWith(e1, slash) THEN e1 \o slash ELSE e1

\* Three._global_api_key: the environment's key, or ''
_global_api_key ==
    IF "OPEN311_API_KEY" \in DOMAIN environ
    THEN environ["OPEN311_API_KEY"]
    ELSE <<>>

\* Three.__init__, lines 17-22: the keywords an instance retains
init_keywords(e, kwargs) ==
    LET kw == Update(EmptyDict, kwargs)
    IN  IF Truthy(e) THEN Update(kw, [endpoint |-> _configure_endpoint(e)]) ELSE kw

\* a configure() that merged the overrides onto the live attributes
configure_base_live ==
    [api_key |-> api_key, endpoint |-> endpoint, format |-> format,
     jurisdiction |-> jurisdiction, proxy |-> proxy]

\* Three.configure, line 38: the dict the overrides are merged onto
configure_base == _keywords

\* Three.configure, lines 38-42: the merged keywords
configure_keywords(kwargs) ==
    LET kw == Update(configure_base, kwargs)
    IN  IF "endpoint" \in DOMAIN kwargs
        THEN Update(kw, [endpoint |-> _configure_endpoint(kwargs["endpoint"])])
        ELSE kw

\* a configure() that let the environment's key win over the explicit one
resolve_api_key_env_first(kw) == Or(_global_api_key, Item(kw, "api_key"))

\* Three.configure, line 43
resolve_api_key(kw) == Or(Item(kw, "api_key"), _global_api_key)

\* Three.configure, line 45
resolve_format(kw) == Or(Item(kw, "format"), json)

\* Three.configure, lines 43-47: the values the attributes are assigned
resolve(kw) ==
    [api_key |-> resolve_api_key(kw),
     endpoint |-> Item(kw, "endpoint"),
     format |-> resolve_format(kw),
     jurisdiction |-> Item(kw, "jurisdiction"),
     proxy |-> Item(kw, "proxy")]

\* a configure() that updated self._keywords itself, not a copy of it
retained_alias(kw) == kw

\* Three.configure, line 38: self._keywords after the call; the overrides
\* are merged into a copy, so it keeps the entries it had
retained(kw) == _keywords

\* the five attributes configure() assigns, as one record
Live ==
    [api_key |-> api_key, endpoint |-> endpoint, format |-> format,
     jurisdiction |-> jurisdiction, proxy |-> proxy]

\* Three.configure: the whole call
Apply(kwargs) ==
    LET kw == configure_keywords(kwargs)
        r == resolve(kw)
    IN  /\ api_key' = r.api_key
        /\ endpoint' = r.endpoint
        /\ format' = r.format
        /\ jurisdiction' = r.jurisdiction
        /\ proxy' = r.proxy
        /\ _keywords' = retained(kw)

\* Three(e, **kwargs) in environment env: __init__ stores the keywords and
\* calls configure() with no arguments, which resolves the attributes from
\* a copy of the stored keywords
Init ==
    \E e \in CtorEndpoints, kwargs \in CtorKwargs, env \in Environments :
        /\ environ = env
        /\ _keywords = init_keywords(e, kwargs)
        /\ api_key = resolve(_keywords).api_key
        /\ endpoint = resolve(_keywords).endpoint
        /\ format = resolve(_keywords).format
        /\ jurisdiction = resolve(_keywords).jurisdiction
        /\ proxy = resolve(_keywords).proxy
        /\ op = [name |-> "__init__", endpoint |-> e, kwargs |-> kwargs]
        /\ sent = <<>>
        /\ constructed =
               [environ |-> env, keywords |-> _keywords, live |-> Live]

\* t.configure(**kwargs); drift records whether the attributes differed from
\* the constructed ones when the call was made
Configure ==
    \E kwargs \in ConfigureKwargs :
        /\ Apply(kwargs)
        /\ op' = [name |-> "configure", kwargs |-> kwargs,
                  drift |-> Live /= constructed.live]
        /\ sent' = <<>>
        /\ UNCHANGED <<environ, constructed>>

\* t.reset(): configure() with no arguments
Reset ==
    /\ Apply(EmptyDict)
    /\ op' = [name |-> "reset", drift |-> Live /= constructed.live]
    /\ sent' = <<>>
    /\ UNCHANGED <<environ, constructed>>

\* os.environ['OPEN311_API_KEY'] = v, or its removal, by the program that
\* uses the instance (the tests assign it: test.py lines 20 and 45)
SetEnviron ==
    \E env \in Environments :
        /\ env /= environ
        /\ environ' = env
        /\ op' = [name |-> "environ"]
        /\ sent' = <<>>
        /\ UNCHANGED <<_keywords, api_key, endpoint, format, jurisdiction,
                       proxy, constructed>>

----------------------------------------------------------------------------
(* Three: queries. *)

\* requests.get(url, params=params)
Get(url, params) == [method |-> "GET", url |-> url, kwargs |-> [params |-> params]]

\* requests.get(url), with no keyword argument
GetBare(url) == [method |-> "GET", url |-> url, kwargs |-> EmptyDict]

\* a _create_path that joined every argument, falsy ones too
_create_path_unfiltered(args) == endpoint \o Join(slash, args) \o dot \o format

\* a _create_path that wrote the default extension, not the live format
_create_path_json(args) == endpoint \o Join(slash, Filter(args)) \o dot \o json

\* Three._create_path: endpoint, the truthy args joined by '/', '.format'
_create_path(args) == endpoint \o Join(slash, Filter(args)) \o dot \o format

\* Three.get: one GET of the path, the keyword arguments as params
get(args, kwargs) == <<Get(_create_path(args), kwargs)>>

\* a discovery() that passed params={} along with the caller's url
discovery_with_params(url) ==
    IF Truthy(url) THEN <<Get(url, EmptyDict)>>
    ELSE <<Get(endpoint \o discovery_seg \o dot \o format, EmptyDict)>>

\* Three.discovery
discovery(url) ==
    IF Truthy(url) THEN <<GetBare(url)>> ELSE get(<<discovery_seg>>, EmptyDict)

\* Three.services
services(code, kwargs) == get(<<services_seg, code>>, kwargs)

\* a requests() that set service_code whatever the code
requests_always_code(code, kwargs) ==
    <<Get(endpoint \o requests_seg \o dot \o format,
          Update(kwargs, [service_code |-> code]))>>

\* Three.requests
requests(code, kwargs) ==
    LET kw == IF Truthy(code) THEN Update(kwargs, [service_code |-> code])
              ELSE kwargs
    IN  get(<<requests_seg>>, kw)

\* Three.request
request(id, kwargs) == get(<<requests_seg, id>>, kwargs)

\* requests.post(url, data=data)
Post(url, data) == [method |-> "POST", url |-> url, kwargs |-> [data |-> data]]

\* the part of name before its first space
first_name(name) ==
    LET i == CHOOSE j \in 1..(Len(name) + 1) :
                 /\ j = Len(name) + 1 \/ name[j] = " "
                 /\ \A k \in 1..(j - 1) : name[k] /= " "
    IN  SubSeq(name, 1, i - 1)

\* the part of name after its first space
last_name(name) == SubSeq(name, Len(first_name(name)) + 2, Len(name))

\* Three.post: the named fields and the instance's api_key, then the
\* caller's keyword arguments, sent as the body of one POST
post(code, name, address, kwargs) ==
    LET fields == [first_name |-> first_name(name),
                   last_name |-> last_name(name),
                   service_code |-> code,
                   address_string |-> address,
                   api_key |-> api_key]
    IN  <<Post(_create_path(<<requests_seg>>), Update(fields, kwargs))>>

\* a query leaves the instance and the environment as they are
Query(o, calls) ==
    /\ op' = o
    /\ sent' = calls
    /\ UNCHANGED <<environ, _keywords, api_key, endpoint, format,
                   jurisdiction, proxy, constructed>>

\* t.discovery(url)
Discovery ==
    \E url \in DiscoveryUrls :
        Query([name |-> "discovery", url |-> url], discovery(url))

\* t.services(code, **kwargs)
Services ==
    \E code \in Codes, kwargs \in QueryKwargs :
        Query([name |-> "services", code |-> code, kwargs |-> kwargs],
              services(code, kwargs))

\* t.requests(code, **kwargs)
Requests ==
    \E code \in Codes, kwargs \in RequestsKwargs :
        Query([name |-> "requests", code |-> code, kwargs |-> kwargs],
              requests(code, kwargs))

\* t.request(id, **kwargs)
Request ==
    \E id \in Ids, kwargs \in QueryKwargs :
        Query([name |-> "request", id |-> id, kwargs |-> kwargs],
              request(id, kwargs))

\* t.post(code, name=name, address=address, **kwargs)
PostRequest ==
    \E code \in Codes \ {None, <<>>}, name \in Names, address \in Addresses,
       kwargs \in PostKwargs :
        Query([name |-> "post", code |-> code, person |-> name,
               address |-> address, kwargs |-> kwargs],
              post(code, name, address, kwargs))

Next ==
    \/ Configure
    \/ Reset
    \/ SetEnviron
    \/ Discovery
    \/ Services
    \/ Requests
    \/ Request
    \/ PostRequest

Spec == Init /\ [][Next]_vars

----------------------------------------------------------------------------
(* What the claims speak of. *)

\* the last operation was a construction or a (re)configuration
Configured == op.name \in {"__init__", "configure", "reset"}

\* the last operation was given an endpoint string: a non-empty first
\* argument of Three(...), or endpoint=... of configure()
EndpointGiven ==
    \/ op.name = "__init__" /\ Truthy(op.endpoint)
    \/ op.name = "configure" /\ "endpoint" \in DOMAIN op.kwargs

\* that endpoint string
GivenEndpoint ==
    IF op.name = "__init__" THEN op.endpoint ELSE op.kwargs["endpoint"]

\* the string carries a scheme
HasScheme(e) == StartsWith(e, http_prefix) \/ StartsWith(e, https_prefix)

\* the string ends in one '/' and no more
OneTrailingSlash(e) ==
    /\ Len(e) >= 1
    /\ e[Len(e)] = "/"
    /\ Len(e) >= 2 => e[Len(e) - 1] /= "/"

\* the keywords the last (re)configuration merged: the retained ones, under
\* the overrides of configure()
MergedKeywords ==
    IF op.name = "configure"
    THEN [k \in DOMAIN constructed.keywords \cup DOMAIN op.kwargs |->
             IF k \in DOMAIN op.kwargs THEN op.kwargs[k]
             ELSE constructed.keywords[k]]
    ELSE constructed.keywords

\* the api key by the precedence of the data model: the explicit key when
\* non-empty, else the environment's when the variable is present, else ''
ExpectedApiKey(m) ==
    IF "api_key" \in DOMAIN m /\ m["api_key"] /= <<>> THEN m["api_key"]
    ELSE IF "OPEN311_API_KEY" \in DOMAIN environ
         THEN environ["OPEN311_API_KEY"]
         ELSE <<>>

\* the value of key k in m, '' when absent
ValueOr(m, k, default) ==
    IF k \in DOMAIN m /\ m[k] /= <<>> THEN m[k] ELSE default

\* the one call the last operation made
TheCall == sent[1]

\* the last operation made exactly one call, with this method
OneCall(method) == Len(sent) = 1 /\ TheCall.method = method

----------------------------------------------------------------------------
(* C1: after any sequence of configure() calls, reset() leaves endpoint,   *)
(* format, api_key, jurisdiction and proxy as they were right after        *)
(* construction (the environment being the one of the construction), and   *)
(* a reset() that follows a reset() changes none of them.                  *)
C1_ResetRestores ==
    [][Reset =>
          /\ environ = constructed.environ => Live' = constructed.live
          /\ op.name = "reset" => Live' = Live]_vars

\* a reset() undid a drift that configure() calls had introduced
C1_Witness ==
    /\ op.name = "reset"
    /\ op.drift
    /\ environ = constructed.environ
    /\ Live = constructed.live

(* C2: after construction, configure() or reset(), api_key is the explicit *)
(* api_key of the merged keywords when non-empty, else the value of        *)
(* OPEN311_API_KEY when it is present, else the empty string.              *)
C2_ApiKeyPrecedence ==
    Configured => api_key = ExpectedApiKey(MergedKeywords)

\* configure(api_key='') with the variable set: the environment's key is used
C2_Witness ==
    /\ op.name = "configure"
    /\ "api_key" \in DOMAIN op.kwargs
    /\ op.kwargs["api_key"] = <<>>
    /\ "OPEN311_API_KEY" \in DOMAIN environ
    /\ environ["OPEN311_API_KEY"] /= <<>>
    /\ api_key = environ["OPEN311_API_KEY"]

(* C3: an endpoint string without a scheme is resolved to 'https://'       *)
(* followed by the string; one that starts with 'http://' or 'https://'    *)
(* keeps its scheme.                                                       *)
C3_SchemeDefaulted ==
    EndpointGiven =>
        LET e == GivenEndpoint
        IN  /\ ~HasScheme(e) => StartsWith(endpoint, https_prefix \o e)
            /\ StartsWith(e, http_prefix) => StartsWith(endpoint, http_prefix)
            /\ StartsWith(e, https_prefix) => StartsWith(endpoint, https_prefix)

(* C4: the endpoint resolved from an endpoint string ends in exactly one   *)
(* '/', whatever number of '/' the string ended in.                        *)
C4_OneTrailingSlash ==
    EndpointGiven => OneTrailingSlash(endpoint)

(* C5: requests(code, **kwargs) makes one GET of                           *)
(* '{endpoint}requests.{format}' whose params are the caller's kwargs,     *)
(* with service_code=code added if and only if code is truthy.             *)
C5_RequestsParams ==
    op.name = "requests" =>
        /\ OneCall("GET")
        /\ TheCall.url = endpoint \o requests_seg \o dot \o format
        /\ DOMAIN TheCall.kwargs = {"params"}
        /\ LET params == TheCall.kwargs["params"]
               added == IF Truthy(op.code) THEN {"service_code"} ELSE {}
           IN  /\ DOMAIN params = DOMAIN op.kwargs \cup added
               /\ \A k \in DOMAIN op.kwargs \ added : params[k] = op.kwargs[k]
               /\ \A k \in added : params[k] = op.code

\* requests('123', status='open') sent both parameters
C5_Witness ==
    /\ op.name = "requests"
    /\ Truthy(op.code)
    /\ DOMAIN op.kwargs = {"status"}
    /\ Len(sent) = 1
    /\ DOMAIN TheCall.kwargs["params"] = {"status", "service_code"}

(* C6: discovery(url) with a non-empty url makes one GET of that very url  *)
(* with no params argument; discovery() without one makes one GET of       *)
(* '{endpoint}discovery.{format}' with params = {}.                        *)
C6_Discovery ==
    op.name = "discovery" =>
        /\ OneCall("GET")
        /\ IF op.url /= None /\ op.url /= <<>>
           THEN /\ TheCall.url = op.url
                /\ DOMAIN TheCall.kwargs = {}
           ELSE /\ TheCall.url = endpoint \o discovery_seg \o dot \o format
                /\ DOMAIN TheCall.kwargs = {"params"}
                /\ DOMAIN TheCall.kwargs["params"] = {}

\* discovery(url) on an instance whose own discovery path is another url
C6_Witness ==
    /\ op.name = "discovery"
    /\ op.url = test_url
    /\ endpoint /= <<>>
    /\ Len(sent) = 1
    /\ TheCall.url = test_url
    /\ TheCall.url /= endpoint \o discovery_seg \o dot \o format

(* C7: services(code, **kwargs) and request(id, **kwargs) make one GET of  *)
(* the live endpoint, then 'services' resp. 'requests' and the code resp.  *)
(* id when it is non-empty, joined by '/', then '.' and the live format;   *)
(* params are the caller's kwargs.                                         *)
C7_PathAndParams ==
    op.name \in {"services", "request"} =>
        LET head == IF op.name = "services" THEN services_seg ELSE requests_seg
            arg == IF op.name = "services" THEN op.code ELSE op.id
            path == IF arg = None \/ arg = <<>> THEN head
                    ELSE head \o slash \o arg
        IN  /\ OneCall("GET")
            /\ TheCall.url = endpoint \o path \o dot \o format
            /\ DOMAIN TheCall.kwargs = {"params"}
            /\ TheCall.kwargs["params"] = op.kwargs

\* services('123') after configure() moved the endpoint and the format
C7_Witness ==
    /\ op.name = "services"
    /\ op.code = <<"1", "2", "3">>
    /\ endpoint /= constructed.live.endpoint
    /\ format /= constructed.live.format
    /\ Len(sent) = 1
    /\ TheCall.url = endpoint \o services_seg \o slash \o op.code \o dot \o format

\* the body of the POST that post() made carries the named fields and every
\* keyword argument of the caller
PostBody(data) ==
    /\ DOMAIN data =
           {"first_name", "last_name", "service_code", "address_string",
            "api_key"} \cup DOMAIN op.kwargs
    /\ data["service_code"] = op.code
    /\ data["address_string"] = op.address
    /\ \E i \in 1..Len(op.person) :
           /\ op.person[i] = " "
           /\ \A j \in 1..(i - 1) : op.person[j] /= " "
           /\ data["first_name"] = SubSeq(op.person, 1, i - 1)
           /\ data["last_name"] = SubSeq(op.person, i + 1, Len(op.person))
    /\ \A k \in DOMAIN op.kwargs : data[k] = op.kwargs[k]

\* post() made one POST of '{endpoint}requests.{format}' with a body only
PostShape ==
    /\ OneCall("POST")
    /\ TheCall.url = endpoint \o requests_seg \o dot \o format
    /\ DOMAIN TheCall.kwargs = {"data"}

C9_MergeOntoBase ==
    /\ _keywords = constructed.keywords
    /\ op.name = "configure" =>
           LET m == MergedKeywords
           IN  /\ api_key = ExpectedApiKey(m)
               /\ endpoint =
                      IF "endpoint" \in DOMAIN op.kwargs
                      THEN _configure_endpoint(op.kwargs["endpoint"])
                      ELSE ValueOr(constructed.keywords, "endpoint", <<>>)
               /\ format = ValueOr(m, "format", json)
               /\ jurisdiction = ValueOr(m, "jurisdiction", <<>>)
               /\ proxy = ValueOr(m, "proxy", <<>>)

\* configure(format='xml') on an instance that earlier configure() calls had
\* moved away from its constructed attributes: only the format differs now
C9_Witness ==
    /\ op.name = "configure"
    /\ op.drift
    /\ op.kwargs = [format |-> xml]
    /\ constructed.live.format = json
    /\ constructed.live.endpoint /= <<>>
    /\ Live = [constructed.live EXCEPT !.format = xml]

(* C10: in every reachable state the live endpoint starts with 'http://'   *)
(* or 'https://' and ends with a single trailing '/'.                      *)
C10_EndpointNormalized ==
    /\ HasScheme(endpoint)
    /\ OneTrailingSlash(endpoint)

====
